---- MODULE Spec2Model ----
(***************************************************************************)
(* A model of PromptGen's text transformer: the CompLinguisticsTransformer *)
(* engine (src/src/transformer.py) and the command-line run that builds    *)
(* it (src/src/entrypoint.py).                                             *)
(*                                                                         *)
(* Python strings are TLA+ strings; Len, \o and SubSeq act on them.        *)
(* Probabilities are fractions of Scale: a draw of random.random() is an   *)
(* integer d in 0..Scale-1 standing for d/Scale, an intensity is an        *)
(* integer in 0..Scale standing for intensity/Scale.                       *)
(***************************************************************************)
EXTENDS Integers, Sequences, FiniteSets, TLC

\* ------------------------------------------------------------------ bounds
\* Resolution of the random draws and of the intensity.
Scale == 4
\* random.choice / random.randint pick among the first MaxChoice candidates.
MaxChoice == 1

Min(a, b) == IF a < b THEN a ELSE b
Max(a, b) == IF a > b THEN a ELSE b

\* ------------------------------------------------------- string primitives
UpperChars ==
  { "A", "B", "C", "D", "E", "F", "G", "H", "I", "J", "K", "L", "M",
  "N", "O", "P", "Q", "R", "S", "T", "U", "V", "W", "X", "Y", "Z" }

\* \w of the regular expressions: ASCII letters, digits, underscore
WordChars ==
  { "A", "B", "C", "D", "E", "F", "G", "H", "I", "J", "K", "L", "M",
  "N", "O", "P", "Q", "R", "S", "T", "U", "V", "W", "X", "Y", "Z",
  "a", "b", "c", "d", "e", "f", "g", "h", "i", "j", "k", "l", "m",
  "n", "o", "p", "q", "r", "s", "t", "u", "v", "w", "x", "y", "z",
  "0", "1", "2", "3", "4", "5", "6", "7", "8", "9", "_" }

Chr(s, k) == SubSeq(s, k, k)

\* str.lower() on the upper-case letters
LowerOf ==
  [c \in UpperChars |->
     CASE c = "A" -> "a" [] c = "B" -> "b" [] c = "C" -> "c" [] c = "D" -> "d"
       [] c = "E" -> "e" [] c = "F" -> "f" [] c = "G" -> "g" [] c = "H" -> "h"
       [] c = "I" -> "i" [] c = "J" -> "j" [] c = "K" -> "k" [] c = "L" -> "l"
       [] c = "M" -> "m" [] c = "N" -> "n" [] c = "O" -> "o" [] c = "P" -> "p"
       [] c = "Q" -> "q" [] c = "R" -> "r" [] c = "S" -> "s" [] c = "T" -> "t"
       [] c = "U" -> "u" [] c = "V" -> "v" [] c = "W" -> "w" [] c = "X" -> "x"
       [] c = "Y" -> "y" [] c = "Z" -> "z"]

\* str.lower() on one character
LowerChar(c) == IF c \in UpperChars THEN LowerOf[c] ELSE c

RECURSIVE Lower(_)
\* str.lower(), half by half
Lower(s) ==
  IF Len(s) = 0 THEN ""
  ELSE IF Len(s) = 1 THEN LowerChar(s)
  ELSE Lower(SubSeq(s, 1, Len(s) \div 2)) \o Lower(SubSeq(s, Len(s) \div 2 + 1, Len(s)))

IsWordChar(c) == c \in WordChars

IsSpace(c) == c = " "

\* str.startswith / str.endswith
StartsWith(s, p) == Len(p) <= Len(s) /\ SubSeq(s, 1, Len(p)) = p
EndsWith(s, p) == Len(p) <= Len(s) /\ SubSeq(s, Len(s) - Len(p) + 1, Len(s)) = p

\* a prefix match under (?i)
StartsWithCI(s, p) == Len(p) <= Len(s) /\ Lower(SubSeq(s, 1, Len(p))) = Lower(p)

\* p in s (substring test)
Contains(s, p) == \E k \in 1..(Len(s) - Len(p) + 1) : SubSeq(s, k, k + Len(p) - 1) = p

RECURSIVE Join(_, _)
\* sep.join(seq)
Join(seq, sep) ==
  IF Len(seq) = 0 THEN ""
  ELSE IF Len(seq) = 1 THEN seq[1]
  ELSE seq[1] \o sep \o Join(Tail(seq), sep)

\* the least element of a non-empty set of integers
Least(S) == CHOOSE k \in S : \A l \in S : k <= l

RECURSIVE LStrip(_)
\* str.lstrip()
LStrip(s) == IF Len(s) > 0 /\ IsSpace(Chr(s, 1)) THEN LStrip(SubSeq(s, 2, Len(s))) ELSE s

RECURSIVE RunEnd(_, _)
\* the position after the run of non-space characters that holds position k
RunEnd(s, k) == IF k > Len(s) \/ IsSpace(Chr(s, k)) THEN k ELSE RunEnd(s, k + 1)

RECURSIVE SplitRuns(_)
\* the runs of non-space characters of a text that starts with one
SplitRuns(body) ==
  IF body = "" THEN <<>>
  ELSE <<SubSeq(body, 1, RunEnd(body, 1) - 1)>>
         \o SplitRuns(LStrip(SubSeq(body, RunEnd(body, 1), Len(body))))

\* str.split(): the maximal runs of non-space characters
Split(s) == SplitRuns(LStrip(s))

RECURSIVE RStrip(_)
\* str.rstrip()
RStrip(s) == IF Len(s) > 0 /\ IsSpace(Chr(s, Len(s))) THEN RStrip(SubSeq(s, 1, Len(s) - 1)) ELSE s


\* len(re.findall(r'\b\w+\b', text)): the number of maximal runs of word
\* characters
CountWords(s) ==
  Cardinality({k \in 1..Len(s) :
                 IsWordChar(Chr(s, k)) /\ (k = 1 \/ ~IsWordChar(Chr(s, k - 1)))})

\* ------------------------------------------------------------- tokenizers
\* Punctuation the tokenizers split on; the input texts hold letters, single
\* spaces and these characters, and no abbreviations.
SentEndChars == {".", "?", "!"}

RECURSIVE TokenizeChunk(_, _, _)
\* the tokens of one run of non-space characters: a punctuation character
\* is a token of its own
TokenizeChunk(c, k, cur) ==
  LET flush == IF cur = "" THEN <<>> ELSE <<cur>>
  IN IF k > Len(c) THEN flush
     ELSE IF Chr(c, k) \in SentEndChars
       THEN flush \o <<Chr(c, k)>> \o TokenizeChunk(c, k + 1, "")
     ELSE TokenizeChunk(c, k + 1, cur \o Chr(c, k))

RECURSIVE TokenizeChunks(_)
TokenizeChunks(chunks) ==
  IF Len(chunks) = 0 THEN <<>>
  ELSE TokenizeChunk(chunks[1], 1, "") \o TokenizeChunks(Tail(chunks))

\* nltk word_tokenize: white space separates tokens and a punctuation
\* character is a token of its own
word_tokenize(s) == TokenizeChunks(Split(s))

\* positions of the sentence-ending characters that white space follows
SentenceBreaks(body) ==
  {k \in 1..(Len(body) - 1) : Chr(body, k) \in SentEndChars /\ IsSpace(Chr(body, k + 1))}

RECURSIVE SentSplit(_, _)
\* the sentences of a stripped text, given the breaks that are left in it
SentSplit(body, breaks) ==
  IF body = "" THEN <<>>
  ELSE IF breaks = {} THEN <<body>>
  ELSE LET b == Least(breaks)
           rest == LStrip(SubSeq(body, b + 1, Len(body)))
       IN <<SubSeq(body, 1, b)>> \o SentSplit(rest, SentenceBreaks(rest))

\* nltk sent_tokenize: a sentence ends at a sentence-ending character that is
\* followed by white space and more text; surrounding white space is dropped
sent_tokenize(s) == SentSplit(RStrip(LStrip(s)), SentenceBreaks(RStrip(LStrip(s))))

\* a token the tagger can give a word class to (it holds a word character)
IsWordToken(tok) == \E k \in 1..Len(tok) : IsWordChar(Chr(tok, k))

\* --------------------------------------------------------- Python objects
\* A scalar value: its Python type and its text.
Str(s) == [type |-> "str", val |-> s]
IntFive == [type |-> "int", val |-> "5"]
NoneObj == [type |-> "NoneType", val |-> ""]
EmptyStr == Str("")

\* A container: its Python type and, for a dict, its <<key, value>> items.
Dict(items) == [type |-> "dict", items |-> items]
ListOf(items) == [type |-> "list", items |-> items]
NoneContainer == [type |-> "NoneType", items |-> {}]

\* bool(obj) of a container
Truthy(c) == c.items # {}
IsDict(c) == c.type = "dict"

\* ----------------------------------------------------- the engine's tables
\* self.term_mapping as built by __init__
TermPairs == {
  <<"organize", "implement hierarchical organization of">>,
  <<"look", "perform corpus traversal across">>,
  <<"find", "identify">>,
  <<"check", "verify lexical and syntactic correctness of">>,
  <<"fix", "resolve anomalous patterns in">>,
  <<"use", "leverage">>,
  <<"start", "initiate">>,
  <<"continue", "proceed with subsequent modules in">>,
  <<"create", "generate structured artifacts for">>,
  <<"update", "refactor">>,
  <<"work", "execute operations on">>,
  <<"focus", "prioritize implementation of">>,
  <<"make", "construct">>,
  <<"give", "provide contextual metadata for">>,
  <<"code", "codebase">>,
  <<"files", "syntax tree components">>,
  <<"problems", "anomalous patterns">>,
  <<"errors", "syntactic inconsistencies">>,
  <<"bugs", "implementation defects">>,
  <<"project", "development corpus">>,
  <<"steps", "sequential components">>,
  <<"parts", "modular elements">>,
  <<"document", "knowledge transfer schema">>,
  <<"list", "enumerated entities">>,
  <<"info", "metadata">>,
  <<"folders", "directory hierarchy">>,
  <<"structure", "architectural schema">>,
  <<"first", "initial">>,
  <<"important", "critical">>,
  <<"main", "primary">>,
  <<"clear", "explicit">>,
  <<"good", "optimal">>,
  <<"bad", "suboptimal">>,
  <<"new", "subsequent">>,
  <<"look for", "identify instances of">>,
  <<"go through", "traverse the lexical structure of">>,
  <<"set up", "initialize the configuration parameters for">>,
  <<"find out", "determine through systematic analysis">>,
  <<"write down", "document in structured format">>,
  <<"keep track of", "maintain referential integrity for">>,
  <<"make sure", "ensure syntactic validity of">>,
  <<"pay attention to", "maintain semantic focus on">>,
  <<"next steps", "subsequent procedural elements">> }

\* the table without the key "document"
DefaultTermMappingNoDocument ==
  [k \in {Str(p[1]) : p \in TermPairs} \ {Str("document")} |->
     Str((CHOOSE p \in TermPairs : p[1] = k.val)[2])]

\* the table without the command keyword "find"
DefaultTermMappingNoFind ==
  [k \in {Str(p[1]) : p \in TermPairs} \ {Str("find")} |->
     Str((CHOOSE p \in TermPairs : p[1] = k.val)[2])]

\* self.term_mapping as __init__ writes it
DefaultTermMapping ==
  [k \in {Str(p[1]) : p \in TermPairs} |->
     Str((CHOOSE p \in TermPairs : p[1] = k.val)[2])]

\* self.technical_nouns
technical_nouns == <<
  "abstract syntax tree", "lexical analysis", "syntactic patterns",
  "referential integrity", "modular components", "dependency hierarchy",
  "implementation pipeline", "code corpus", "semantic structure",
  "lexical tokens", "syntactic schema", "architectural paradigm",
  "module granularity", "dependency graph", "namespace resolution" >>

\* self.technical_modifiers
technical_modifiers == <<
  "hierarchical", "sequential", "systematic", "structured", "modular",
  "granular", "lexical", "syntactic", "semantic", "architectural",
  "paradigmatic", "comprehensive", "discrete", "optimal", "explicit" >>

\* self.formal_starters
formal_starters == <<
  "Execute sequential development to", "Implement a systematic approach to",
  "Perform hierarchical analysis to", "Maintain strict adherence to",
  "Prioritize implementation of", "Generate structured documentation for",
  "Establish referential integrity through", "Systematically traverse",
  "Verify syntactic correctness of" >>

\* formal_endings of _formalize_ending
formal_endings == <<
  " This approach ensures optimal implementation of the architectural schema.",
  " Maintaining referential integrity throughout this process is essential.",
  " This methodology aligns with established computational paradigms.",
  " Strict adherence to this framework will facilitate efficient development." >>

\* noun_forms of _add_technical_embellishments
NounPairs == {
  <<"implement", "implementation">>, <<"develop", "development">>,
  <<"execute", "execution">>, <<"analyze", "analysis">>,
  <<"process", "processing">>, <<"transform", "transformation">>,
  <<"generate", "generation">>, <<"organize", "organization">>,
  <<"structure", "structuring">>, <<"refactor", "refactoring">> }

noun_forms == [k \in {p[1] : p \in NounPairs} |-> (CHOOSE p \in NounPairs : p[1] = k)[2]]

\* random.choice(seq): one of the first MaxChoice elements
Choices(seq) == {seq[k] : k \in 1..Min(Len(seq), MaxChoice)}

\* random.random(): d stands for d/Scale, in [0, 1)
Draws == 0..(Scale - 1)

\* ------------------------------------------------------ program constants
\* longest phrase looked up by _replace_terms
MaxPhraseLen == 4
\* _restructure_sentence adds a formal starter below this many words
StarterWordLimit == 8
\* the noun phrase is inserted only above this many words
InsertWordLimit == 3
\* _formalize_ending leaves shorter texts alone
EndingMinLen == 100

\* ------------------------------------------------------------- the inputs
\* The one-sentence input texts.
SentencePool == {
  "look for it",
  "foo",
  "write down the code.",
  "please update the list.",
  "how do we fix it?",
  "Look at other files.",
  "it is important important.",
  "find it" }

\* A text of two sentences; the join of its tokens has 99 characters.
Document ==
  "check it. it was an extraordinarily uneventful and surprisingly comfortable afternoon downstairs."

Texts == SentencePool \cup {Document}

\* the text argument of transform: a str, or a value that is not one
TextArgs == {Str(t) : t \in Texts} \cup {EmptyStr, NoneObj, IntFive}

\* the intensity argument of transform: a number (num/Scale), or a value
\* float() rejects
IntensityArgs ==
  {[convertible |-> TRUE, num |-> n] : n \in {-1, 0, Scale \div 2, Scale, Scale + 1}}
    \cup {[convertible |-> FALSE, num |-> 0]}

\* the custom_terminology argument of the constructor
FooBar == Dict({<<Str("foo"), Str("bar")>>})
FooFive == Dict({<<Str("foo"), IntFive>>})
FooList == ListOf({<<Str("0"), Str("foo")>>})
EmptyDict == Dict({})
CustomArgs == {NoneContainer, EmptyDict, FooBar, FooFive, FooList}

\* ------------------------------------------------------------ __init__
\* dict.update(other)
DictUpdate(mapping, other) ==
  [k \in DOMAIN mapping \cup {it[1] : it \in other.items} |->
     IF \E it \in other.items : it[1] = k
       THEN (CHOOSE it \in other.items : it[1] = k)[2]
       ELSE mapping[k]]

\* if custom_terminology and isinstance(custom_terminology, dict)
AcceptsCustom(custom) == Truthy(custom) /\ IsDict(custom)

\* the term_mapping __init__ leaves in the engine
InitTermMapping(custom) ==
  IF AcceptsCustom(custom) THEN DictUpdate(DefaultTermMapping, custom) ELSE DefaultTermMapping

\* ------------------------------------------------------ _replace_terms
\* the comparison of the replacement coin turned round
ReplaceCoinInverted(d, p) == d > p

\* random.random() < intensity
ReplaceCoin(d, p) == d < p

\* ' '.join(tokens[i:i+j]).lower(), i counted from 0
PhraseAt(toks, i, j) == Lower(Join(SubSeq(toks, i + 1, i + j), " "))

RECURSIVE FirstMatch(_, _, _, _)
\* for j in range(min(4, len(tokens) - i), 0, -1): the first j whose phrase
\* is a key, 0 when the loop ends without one
FirstMatch(mapping, toks, i, j) ==
  IF j <= 0 THEN 0
  ELSE IF Str(PhraseAt(toks, i, j)) \in DOMAIN mapping THEN j
  ELSE FirstMatch(mapping, toks, i, j - 1)

\* the lengths tried shortest first
PhraseLenShortestFirst(mapping, toks, i) ==
  LET lens == {j \in 1..Min(MaxPhraseLen, Len(toks) - i) :
                 Str(PhraseAt(toks, i, j)) \in DOMAIN mapping}
  IN IF lens = {} THEN 0 ELSE Least(lens)

\* the for loop of one cursor position: the length it matches, 0 when none
PhraseLen(mapping, toks, i) == FirstMatch(mapping, toks, i, Min(MaxPhraseLen, Len(toks) - i))

\* the first token of the span alone
OriginalsFirstOnly(toks, i, j) == <<Str(toks[i + 1])>>

\* tokens[i:i+j] as the objects new_tokens.extend adds
Originals(toks, i, j) == [k \in 1..j |-> Str(toks[i + k])]

RECURSIVE ReplaceAll(_, _, _)
\* the elements the while loop of _replace_terms appends from cursor i on
\* when every draw passes (intensity 1)
ReplaceAll(mapping, toks, i) ==
  IF i >= Len(toks) THEN <<>>
  ELSE IF PhraseLen(mapping, toks, i) > 0
    THEN <<mapping[Str(PhraseAt(toks, i, PhraseLen(mapping, toks, i)))]>>
           \o ReplaceAll(mapping, toks, i + PhraseLen(mapping, toks, i))
    ELSE <<IF Str(Lower(toks[i + 1])) \in DOMAIN mapping
             THEN mapping[Str(Lower(toks[i + 1]))]
             ELSE Str(toks[i + 1])>>
           \o ReplaceAll(mapping, toks, i + 1)

\* ' '.join(new_tokens) is defined when every element is a str
Joinable(objs) == \A k \in 1..Len(objs) : objs[k].type = "str"
JoinObjs(objs) == Join([k \in 1..Len(objs) |-> objs[k].val], " ")

\* _replace_terms(sentence, 1.0) as a function of the sentence
ReplaceTermsFull(mapping, sent) == JoinObjs(ReplaceAll(mapping, word_tokenize(sent), 0))

\* ------------------------------------------------- _restructure_sentence
\* self.structure_patterns, in list order. alts are the alternatives of the
\* leading group; a question pattern must also find a "?" after them; keep
\* says whether the template repeats the leading group (\1).
structure_patterns == <<
  [alts |-> <<"check", "look at", "find", "fix", "update">>,
   question |-> FALSE, prefix |-> "Systematically ", keep |-> TRUE],
  [alts |-> <<"use", "create", "make", "give">>,
   question |-> FALSE, prefix |-> "Implement methodology to ", keep |-> TRUE],
  [alts |-> <<"how do i", "how do we", "how can i", "how can we",
              "how should i", "how should we">>,
   question |-> TRUE, prefix |-> "What is the optimal approach to", keep |-> FALSE],
  [alts |-> <<"can you", "could you", "would you">>,
   question |-> TRUE, prefix |-> "Is it feasible to", keep |-> FALSE],
  [alts |-> <<"i want", "we need", "please">>,
   question |-> FALSE, prefix |-> "It is necessary to", keep |-> FALSE],
  [alts |-> <<"i think", "i believe">>,
   question |-> FALSE, prefix |-> "Analysis indicates", keep |-> FALSE] >>

\* the pronouns of the formal-starter guard
Pronouns == <<"i", "we", "you", "they", "he", "she", "it">>

\* position of the last "?" of s, 0 when there is none
LastQuestionMark(s) ==
  IF \E k \in 1..Len(s) : Chr(s, k) = "?"
    THEN CHOOSE k \in 1..Len(s) :
           Chr(s, k) = "?" /\ \A l \in (k + 1)..Len(s) : Chr(s, l) # "?"
    ELSE 0

\* the alternative can start a match of the pattern on s
AltMatches(pat, alt, s) ==
  StartsWithCI(s, alt) /\ (pat.question => LastQuestionMark(s) > Len(alt))

\* re.match(pattern, sentence)
PatternMatches(pat, s) == \E a \in 1..Len(pat.alts) : AltMatches(pat, pat.alts[a], s)

\* re.sub(pattern, replacement, sentence) for a pattern that matches
PatternRewrite(pat, s) ==
  LET a == CHOOSE a \in 1..Len(pat.alts) :
             /\ AltMatches(pat, pat.alts[a], s)
             /\ \A b \in 1..(a - 1) : ~AltMatches(pat, pat.alts[b], s)
      n == Len(pat.alts[a])
      lead == IF pat.keep THEN SubSeq(s, 1, n) ELSE ""
  IN IF pat.question
       THEN LET q == LastQuestionMark(s)
            IN pat.prefix \o lead \o SubSeq(s, n + 1, q - 1) \o "?" \o SubSeq(s, q + 1, Len(s))
       ELSE pat.prefix \o lead \o SubSeq(s, n + 1, Len(s))

\* index of the first pattern of the list that matches, 0 when none does
FirstPattern(s) ==
  IF \E k \in 1..Len(structure_patterns) : PatternMatches(structure_patterns[k], s)
    THEN CHOOSE k \in 1..Len(structure_patterns) :
           /\ PatternMatches(structure_patterns[k], s)
           /\ \A l \in 1..(k - 1) : ~PatternMatches(structure_patterns[l], s)
    ELSE 0

\* re.match(r"(?i)^(i|we|you|they|he|she|it)\b", sentence)
StartsWithPronoun(s) ==
  \E a \in 1..Len(Pronouns) :
    /\ StartsWithCI(s, Pronouns[a])
    /\ \/ Len(s) = Len(Pronouns[a])
       \/ ~IsWordChar(Chr(s, Len(Pronouns[a]) + 1))

\* random.choice(self.formal_starters): one of the first MaxChoice starters,
\* or the starter that begins with the word of the first command rewrite
StarterChoices == Choices(formal_starters) \cup {formal_starters[8]}

\* random.random() > intensity: the sentence is returned as it is
RestructureSkips(d, p) == d > p

\* the comparison of the formal-starter branch turned round
StarterCoinInverted(d, p) == d > p

\* random.random() < intensity of the formal-starter branch
StarterCoin(d, p) == d < p

\* the formal-starter branch tried before the patterns
RestructureStarterFirst(s, p, d1, d2, starter) ==
  IF RestructureSkips(d1, p) THEN s
  ELSE IF /\ Len(Split(s)) < StarterWordLimit
          /\ StarterCoin(d2, p)
          /\ ~StartsWithPronoun(s)
    THEN starter \o " " \o s
  ELSE IF FirstPattern(s) # 0 THEN PatternRewrite(structure_patterns[FirstPattern(s)], s)
  ELSE s

\* _restructure_sentence with draws d1, d2 and the starter random.choice gives
Restructure(s, p, d1, d2, starter) ==
  IF RestructureSkips(d1, p) THEN s
  ELSE IF FirstPattern(s) # 0 THEN PatternRewrite(structure_patterns[FirstPattern(s)], s)
  ELSE IF /\ Len(Split(s)) < StarterWordLimit
          /\ StarterCoin(d2, p)
          /\ ~StartsWithPronoun(s)
    THEN starter \o " " \o s
  ELSE s

\* ------------------------------------------ _add_technical_embellishments
\* random.random() > intensity: the text is returned as it is
EmbellishSkips(d, p) == d > p

\* random.random() < 0.3 * intensity
NounCoin(d, p) == 10 * d < 3 * p

\* random.random() < 0.7
LikelyCoin(d) == 10 * d < 7 * Scale

\* random.random() < 0.4 * intensity
ModifierCoin(d, p) == 10 * d < 4 * p

\* the coin without the advanced flag
NominalCoinUngated(adv, d, p) == 10 * d < 3 * p

\* advanced and random.random() < 0.3 * intensity
NominalCoin(adv, d, p) == adv /\ 10 * d < 3 * p

\* random.random() < 0.6
NounFormCoin(d) == 10 * d < 6 * Scale

\* k starts a whole word "the" of s, whatever its case: (?i)\bthe\b
TheAt(s, k) ==
  /\ k + 2 <= Len(s)
  /\ Lower(SubSeq(s, k, k + 2)) = "the"
  /\ (k = 1 \/ ~IsWordChar(Chr(s, k - 1)))
  /\ (k + 2 = Len(s) \/ ~IsWordChar(Chr(s, k + 3)))

HasWordThe(s) == \E k \in 1..Len(s) : TheAt(s, k)

\* re.sub(r"(?i)\bthe\b", f"the {tech_noun}", sentence, count=1)
SubFirstThe(s, noun) ==
  IF HasWordThe(s)
    THEN LET k == CHOOSE k \in 1..Len(s) : TheAt(s, k) /\ \A l \in 1..(k - 1) : ~TheAt(s, l)
         IN SubSeq(s, 1, k - 1) \o "the " \o noun \o SubSeq(s, k + 3, Len(s))
    ELSE s

\* words.insert(pos, item), pos counted from 0
ListInsert(words, pos, item) ==
  SubSeq(words, 1, pos) \o <<item>> \o SubSeq(words, pos + 1, Len(words))

\* random.randint(1, len(words) - 2): one of the first MaxChoice positions
InsertPositions(words) == 1..Min(Len(words) - 2, MaxChoice)

\* the noun step with the noun gate open: noun and pos are the random
\* choices, d the draw of the "the" branch
NounInsert(s, noun, d, pos) ==
  IF Contains(Lower(s), "the") /\ LikelyCoin(d)
    THEN SubFirstThe(s, noun)
    ELSE LET words == Split(s)
         IN IF Len(words) > InsertWordLimit
              THEN Join(ListInsert(words, pos, "within the context of " \o noun), " ")
              ELSE s

\* the MaxChoice least elements of a set of integers
FirstFew(S) == {k \in S : Cardinality({l \in S : l < k}) < MaxChoice}

\* indexes (from 1) of the tokens the modifier loop can stop at: a token
\* tagged NN*, not the first, whose draw passes. The tagger is outside the
\* source: any word may get any tag; the first MaxChoice candidates are
\* tried.
ModifierTargets(words) ==
  FirstFew({k \in 2..Len(words) : IsWordToken(words[k]) /\ \E d \in Draws : LikelyCoin(d)})

\* words[i] = f"{tech_modifier} {word}"; sentence = ' '.join(words)
ModifierApply(words, k, modifier) ==
  Join([words EXCEPT ![k] = modifier \o " " \o words[k]], " ")

\* indexes (from 1) of the tokens the nominalization loop can stop at: a
\* token tagged VB*, neither first nor last, found in noun_forms, whose draw
\* passes
NominalTargets(words) ==
  FirstFew({k \in 2..(Len(words) - 1) :
              /\ IsWordToken(words[k])
              /\ Lower(words[k]) \in DOMAIN noun_forms
              /\ \E d \in Draws : NounFormCoin(d)})

\* words[i] = f"the {noun_forms[word.lower()]} of"; sentence = ' '.join(words)
NominalApply(words, k) ==
  Join([words EXCEPT ![k] = "the " \o noun_forms[Lower(words[k])] \o " of"], " ")

\* ----------------------------------------------------- _formalize_ending
\* the length test one short
EndingSkipsBelow99(text, d, p) == Len(text) < EndingMinLen - 1 \/ d > p

\* len(text) < 100 or random.random() > intensity: the text is returned
EndingSkips(text, d, p) == Len(text) < EndingMinLen \/ d > p

\* random.random() < intensity of the append
EndingCoin(d, p) == d < p

\* last_sentence.rstrip().endswith(('.', '!', '?'))
EndsWithPunctuation(sent) ==
  LET r == RStrip(sent) IN Len(r) > 0 /\ Chr(r, Len(r)) \in SentEndChars

\* the ending appended whatever the number of sentences
FormalizeEndingAnyCount(text, p, d1, d2, ending) ==
  IF EndingSkips(text, d1, p) THEN text
  ELSE LET sents == sent_tokenize(text)
           last == sents[Len(sents)]
           punctuated == IF EndsWithPunctuation(last) THEN last ELSE last \o "."
       IN IF EndingCoin(d2, p)
            THEN Join([sents EXCEPT ![Len(sents)] = punctuated \o ending], " ")
            ELSE Join(sents, " ")

\* _formalize_ending with draws d1, d2 and the ending random.choice gives
FormalizeEnding(text, p, d1, d2, ending) ==
  IF EndingSkips(text, d1, p) THEN text
  ELSE LET sents == sent_tokenize(text)
       IN IF Len(sents) < 2 THEN text
          ELSE LET last == sents[Len(sents)]
                   punctuated == IF EndsWithPunctuation(last) THEN last ELSE last \o "."
               IN IF EndingCoin(d2, p)
                    THEN Join([sents EXCEPT ![Len(sents)] = punctuated \o ending], " ")
                    ELSE Join(sents, " ")

\* ---------------------------------------------------------- the run (CLI)
\* value of a limit that is None in the tier record
NoLimit == -1

\* the records validate_token_and_tier returns
FreeFeatures ==
  [max_files |-> 5, max_chars_per_file |-> 10000, custom_terminology |-> FALSE,
   advanced_transforms |-> FALSE, bulk_processing |-> FALSE]
ProFeatures ==
  [max_files |-> 100, max_chars_per_file |-> 100000, custom_terminology |-> TRUE,
   advanced_transforms |-> TRUE, bulk_processing |-> FALSE]
EnterpriseFeatures ==
  [max_files |-> NoLimit, max_chars_per_file |-> NoLimit, custom_terminology |-> TRUE,
   advanced_transforms |-> TRUE, bulk_processing |-> TRUE]
\* no record: validate_token_and_tier has not returned one
NoFeatures ==
  [max_files |-> 0, max_chars_per_file |-> 0, custom_terminology |-> FALSE,
   advanced_transforms |-> FALSE, bulk_processing |-> FALSE]

\* values of --tier-level, and of the "tier" entry of the validation reply
\* ("None": the reply has no such entry)
TierArgs == {"free", "pro", "enterprise", "gold"}
ReplyTiers == {"free", "pro", "enterprise", "None"}

\* what the validation request ends in
ApiOutcomes ==
  {[kind |-> "unreachable", tier |-> "None"], [kind |-> "rejected", tier |-> "None"],
   [kind |-> "invalid", tier |-> "None"]}
    \cup {[kind |-> "valid", tier |-> t] : t \in ReplyTiers}

\* tier_level once the validation request is over
ResolvedTier(arg, api) ==
  IF api.kind = "valid" /\ api.tier # arg THEN api.tier ELSE arg

\* sys.exit(1) of the validation request
ValidationExits(api) == api.kind \in {"rejected", "invalid"}

\* no else branch: every tier goes on
KnownTierAny(tier) == TRUE

\* the tier branch of validate_token_and_tier: the record of a known tier
KnownTier(tier) == tier \in {"free", "pro", "enterprise"}
TierFeatures(tier) ==
  IF tier = "free" THEN FreeFeatures
  ELSE IF tier = "pro" THEN ProFeatures
  ELSE IF tier = "enterprise" THEN EnterpriseFeatures
  ELSE NoFeatures

\* --custom-terminology: no path, or a path to no file, to a file that is
\* not JSON, or to a JSON file with the given content
TerminologyFiles ==
  {[path |-> FALSE, found |-> FALSE, json |-> FALSE, content |-> EmptyDict],
   [path |-> TRUE, found |-> FALSE, json |-> FALSE, content |-> EmptyDict],
   [path |-> TRUE, found |-> TRUE, json |-> FALSE, content |-> EmptyDict]}
    \cup {[path |-> TRUE, found |-> TRUE, json |-> TRUE, content |-> c] :
            c \in {FooBar, FooFive, FooList}}

\* the file is loaded whatever the tier allows
LoadCustomTerminologyAnyTier(file, features) ==
  IF file.path /\ file.found /\ file.json THEN file.content ELSE EmptyDict

\* load_custom_terminology
LoadCustomTerminology(file, features) ==
  IF ~file.path THEN EmptyDict
  ELSE IF ~features.custom_terminology THEN EmptyDict
  ELSE IF ~file.found THEN EmptyDict
  ELSE IF ~file.json THEN EmptyDict
  ELSE file.content

\* ----------------------------------------------------------------- state
EmptyMapping == [k \in {} |-> k]
NoStats == [words |-> 0, chars |-> 0]

VARIABLES
  pc,                    \* where the program is
  tier_level,            \* main: the resolved tier
  tier_features,         \* main: the record validate_token_and_tier returned
  terminology_file,      \* main: what --custom-terminology names
  custom_terminology,    \* main: what load_custom_terminology returned
  term_mapping,          \* the engine's self.term_mapping
  text, intensity, advanced,       \* transform: its parameters
  original_words, original_chars,  \* transform: counts of the input
  sentences, n,          \* transform: sent_tokenize(text) and the loop index
  s,                     \* transform: the sentence being transformed
  transformed_sentences, \* transform: the sentences done
  result, stats,         \* transform: what it returns
  tokens, new_tokens, i, \* _replace_terms: its locals
  emb_sentences, m, sentence, embellished,  \* _add_technical_embellishments: its locals
  spans,                 \* history: the spans _replace_terms consumed in this sentence
  noun_gate,             \* history: the noun gate of the sentence's noun step fired
  edits                  \* history: the edits made by the stages in this call

mainVars == <<tier_level, tier_features, terminology_file, custom_terminology>>
callVars == <<text, intensity, advanced, original_words, original_chars, sentences>>
loopVars == <<n, s, transformed_sentences>>
outVars == <<result, stats>>
replaceVars == <<tokens, new_tokens, i, spans>>
embVars == <<emb_sentences, m, sentence, embellished, noun_gate>>

vars == <<pc, mainVars, term_mapping, callVars, loopVars, outVars, replaceVars, embVars, edits>>

Init ==
  /\ pc = "start"
  /\ tier_level = ""
  /\ tier_features = NoFeatures
  /\ terminology_file = [path |-> FALSE, found |-> FALSE, json |-> FALSE, content |-> EmptyDict]
  /\ custom_terminology = NoneContainer
  /\ term_mapping = EmptyMapping
  /\ text = EmptyStr
  /\ intensity = [convertible |-> TRUE, num |-> 0]
  /\ advanced = FALSE
  /\ original_words = 0 /\ original_chars = 0
  /\ sentences = <<>> /\ n = 0 /\ s = "" /\ transformed_sentences = <<>>
  /\ result = "" /\ stats = NoStats
  /\ tokens = <<>> /\ new_tokens = <<>> /\ i = 0 /\ spans = <<>>
  /\ emb_sentences = <<>> /\ m = 0 /\ sentence = "" /\ embellished = <<>>
  /\ noun_gate = FALSE
  /\ edits = {}

\* ------------------------------------------------------- main (entrypoint)
\* main up to the return of validate_token_and_tier: the arguments are
\* parsed, the token is validated and the tier resolved; sys.exit(1) on a
\* rejected or invalid token and on an unknown tier
ValidateTokenAndTier ==
  /\ pc = "start"
  /\ \E arg \in TierArgs, api \in ApiOutcomes, file \in TerminologyFiles :
       /\ terminology_file' = file
       /\ IF ValidationExits(api)
            THEN /\ pc' = "exit"
                 /\ UNCHANGED <<tier_level, tier_features>>
            ELSE /\ tier_level' = ResolvedTier(arg, api)
                 /\ IF KnownTier(tier_level')
                      THEN pc' = "load" /\ tier_features' = TierFeatures(tier_level')
                      ELSE pc' = "exit" /\ UNCHANGED tier_features
  /\ UNCHANGED <<custom_terminology, term_mapping, callVars, loopVars, outVars,
                 replaceVars, embVars, edits>>

\* main: custom_terminology = load_custom_terminology(...)
MainLoadTerminology ==
  /\ pc = "load"
  /\ custom_terminology' = LoadCustomTerminology(terminology_file, tier_features)
  /\ pc' = "construct"
  /\ UNCHANGED <<tier_level, tier_features, terminology_file, term_mapping, callVars,
                 loopVars, outVars, replaceVars, embVars, edits>>

\* main: transformer = CompLinguisticsTransformer(custom_terminology=...)
MainConstruct ==
  /\ pc = "construct"
  /\ term_mapping' = InitTermMapping(custom_terminology)
  /\ pc' = "process_files"
  /\ UNCHANGED <<mainVars, callVars, loopVars, outVars, replaceVars, embVars, edits>>

\* process_files: the files are found, filtered and cut to the tier's limit,
\* then `args.output_method` is read; args is a local of main, no name of
\* process_files or of the module, so the read raises NameError outside the
\* try block and the run ends before any file is read or transformed
ProcessFiles ==
  /\ pc = "process_files"
  /\ pc' = "name_error"
  /\ UNCHANGED <<mainVars, term_mapping, callVars, loopVars, outVars, replaceVars,
                 embVars, edits>>

\* ------------------------------------------------------ the engine's calls
\* CompLinguisticsTransformer(custom_terminology) called by a user of the
\* class
Construct ==
  /\ pc = "start"
  /\ \E custom \in CustomArgs : term_mapping' = InitTermMapping(custom)
  /\ pc' = "ready"
  /\ UNCHANGED <<mainVars, callVars, loopVars, outVars, replaceVars, embVars, edits>>

\* max(0.0, min(1.0, float(intensity)))
Clamp(num) == Max(0, Min(Scale, num))

\* the check of the type alone
InvalidTextTypeOnly(arg) == arg.type # "str"

\* not text or not isinstance(text, str)
InvalidText(arg) == arg.val = "" \/ arg.type # "str"

\* engine.transform(text, intensity, advanced) is called
Call ==
  /\ pc = "ready"
  /\ \E targ \in TextArgs, iarg \in IntensityArgs, adv \in BOOLEAN :
       /\ text' = targ
       /\ intensity' = iarg
       /\ advanced' = adv
  /\ pc' = "transform"
  /\ UNCHANGED <<mainVars, term_mapping, original_words, original_chars, sentences,
                 loopVars, outVars, replaceVars, embVars, edits>>

\* transform, up to the sentence loop: the text is checked, then the
\* intensity converted (float() raises on a value it rejects) and clamped,
\* the input counted and split
Transform ==
  /\ pc = "transform"
  /\ IF InvalidText(text)
       THEN /\ result' = "Invalid input text."
            /\ stats' = [words |-> 0, chars |-> 0]
            /\ pc' = "returned_invalid"
            /\ UNCHANGED <<intensity, original_words, original_chars, sentences, loopVars>>
       ELSE IF ~intensity.convertible
         THEN /\ pc' = "value_error"
              /\ UNCHANGED <<intensity, original_words, original_chars, sentences,
                             loopVars, outVars>>
         ELSE /\ intensity' = [convertible |-> TRUE, num |-> Clamp(intensity.num)]
              /\ original_words' = CountWords(text.val)
              /\ original_chars' = Len(text.val)
              /\ sentences' = sent_tokenize(text.val)
              /\ n' = 1
              /\ transformed_sentences' = <<>>
              /\ pc' = "for_sentence"
              /\ UNCHANGED <<s, outVars>>
  /\ UNCHANGED <<mainVars, term_mapping, text, advanced, replaceVars, embVars, edits>>

\* for sentence in sentences: the next sentence enters _replace_terms, or
\* the loop is over and the sentences done are joined
ForSentence ==
  /\ pc = "for_sentence"
  /\ IF n <= Len(sentences)
       THEN /\ tokens' = word_tokenize(sentences[n])
            /\ new_tokens' = <<>>
            /\ i' = 0
            /\ spans' = <<>>
            /\ pc' = "replace"
            /\ UNCHANGED <<result>>
       ELSE /\ result' = Join(transformed_sentences, " ")
            /\ pc' = "formalize"
            /\ UNCHANGED <<replaceVars>>
  /\ UNCHANGED <<mainVars, term_mapping, callVars, loopVars, stats, embVars, edits>>

\* one turn of the while loop of _replace_terms at cursor i
ReplaceStep ==
  /\ pc = "replace"
  /\ i < Len(tokens)
  /\ \E j \in {PhraseLen(term_mapping, tokens, i)}, d \in Draws :
          IF j > 0
            THEN /\ new_tokens' =
                      IF ReplaceCoin(d, intensity.num)
                        THEN Append(new_tokens, term_mapping[Str(PhraseAt(tokens, i, j))])
                        ELSE new_tokens \o Originals(tokens, i, j)
                 /\ i' = i + j
                 /\ spans' = Append(spans, [start |-> i, len |-> j, found |-> TRUE,
                                            replaced |-> ReplaceCoin(d, intensity.num)])
            ELSE LET word == Lower(tokens[i + 1])
                     hit == Str(word) \in DOMAIN term_mapping /\ ReplaceCoin(d, intensity.num)
                 IN /\ new_tokens' =
                         IF hit THEN Append(new_tokens, term_mapping[Str(word)])
                                ELSE Append(new_tokens, Str(tokens[i + 1]))
                    /\ i' = i + 1
                    /\ spans' = Append(spans, [start |-> i, len |-> 1, found |-> FALSE,
                                               replaced |-> hit])
  /\ UNCHANGED <<pc, tokens, mainVars, term_mapping, callVars, loopVars, outVars,
                 embVars, edits>>

\* return ' '.join(new_tokens): TypeError when an element is not a str
ReplaceReturn ==
  /\ pc = "replace"
  /\ i >= Len(tokens)
  /\ IF Joinable(new_tokens)
       THEN /\ s' = JoinObjs(new_tokens)
            /\ edits' = IF \E k \in 1..Len(spans) : spans[k].replaced
                          THEN edits \cup {"term"} ELSE edits
            /\ pc' = "restructure"
       ELSE /\ pc' = "type_error"
            /\ UNCHANGED <<s, edits>>
  /\ tokens' = <<>> /\ new_tokens' = <<>> /\ i' = 0 /\ spans' = <<>>
  /\ UNCHANGED <<mainVars, term_mapping, callVars, n, transformed_sentences, outVars,
                 embVars>>

\* s = self._restructure_sentence(s, intensity)
RestructureSentence ==
  /\ pc = "restructure"
  /\ \E d1 \in Draws, d2 \in Draws, starter \in StarterChoices :
       /\ s' = Restructure(s, intensity.num, d1, d2, starter)
       /\ edits' =
            IF s' = s THEN edits
            ELSE IF FirstPattern(s) # 0 THEN edits \cup {"pattern"}
            ELSE edits \cup {"starter"}
  /\ pc' = "embellish"
  /\ UNCHANGED <<mainVars, term_mapping, callVars, n, transformed_sentences, outVars,
                 replaceVars, embVars>>

\* _add_technical_embellishments, its gate: the text is returned as it is,
\* or split into sentences
EmbellishEnter ==
  /\ pc = "embellish"
  /\ \E d \in Draws :
       IF EmbellishSkips(d, intensity.num)
         THEN /\ transformed_sentences' = Append(transformed_sentences, s)
              /\ n' = n + 1
              /\ pc' = "for_sentence"
              /\ UNCHANGED <<embVars>>
         ELSE /\ emb_sentences' = sent_tokenize(s)
              /\ m' = 1
              /\ embellished' = <<>>
              /\ pc' = "for_emb_sentence"
              /\ UNCHANGED <<n, transformed_sentences, sentence, noun_gate>>
  /\ UNCHANGED <<mainVars, term_mapping, callVars, s, outVars, replaceVars, edits>>

\* for sentence in sentences of _add_technical_embellishments: the next
\* sentence, or the return of ' '.join(embellished) to transform, which
\* appends it to transformed_sentences
ForEmbSentence ==
  /\ pc = "for_emb_sentence"
  /\ IF m <= Len(emb_sentences)
       THEN /\ sentence' = emb_sentences[m]
            /\ pc' = "noun"
            /\ UNCHANGED <<emb_sentences, m, embellished, loopVars>>
       ELSE /\ s' = Join(embellished, " ")
            /\ transformed_sentences' = Append(transformed_sentences, s')
            /\ n' = n + 1
            /\ emb_sentences' = <<>> /\ m' = 0 /\ sentence' = "" /\ embellished' = <<>>
            /\ pc' = "for_sentence"
  /\ UNCHANGED <<mainVars, term_mapping, callVars, outVars, replaceVars, edits, noun_gate>>

\* the noun insertion of one sentence
NounStep ==
  /\ pc = "noun"
  /\ \E d \in Draws :
       IF NounCoin(d, intensity.num)
         THEN \E noun \in Choices(technical_nouns), d2 \in Draws,
                 pos \in InsertPositions(Split(sentence)) \cup {1} :
                /\ sentence' = NounInsert(sentence, noun, d2, pos)
                /\ edits' = IF sentence' # sentence THEN edits \cup {"noun"} ELSE edits
                /\ noun_gate' = TRUE
         ELSE /\ noun_gate' = FALSE
              /\ UNCHANGED <<sentence, edits>>
  /\ pc' = "modifier"
  /\ UNCHANGED <<mainVars, term_mapping, callVars, loopVars, outVars, replaceVars,
                 emb_sentences, m, embellished>>

\* the modifier insertion of one sentence: the loop stops at the first noun
\* whose draw passes (k), or ends without one (k = 0)
ModifierStep ==
  /\ pc = "modifier"
  /\ \E d \in Draws :
       IF ModifierCoin(d, intensity.num)
         THEN \E modifier \in Choices(technical_modifiers),
                 k \in ModifierTargets(word_tokenize(sentence)) \cup {0} :
                IF k = 0 THEN UNCHANGED <<sentence, edits>>
                ELSE /\ sentence' = ModifierApply(word_tokenize(sentence), k, modifier)
                     /\ edits' = edits \cup {"modifier"}
         ELSE UNCHANGED <<sentence, edits>>
  /\ noun_gate' = FALSE
  /\ pc' = "nominal"
  /\ UNCHANGED <<mainVars, term_mapping, callVars, loopVars, outVars, replaceVars,
                 emb_sentences, m, embellished>>

\* the nominalization of one sentence: the loop stops at the first verb of
\* noun_forms whose draw passes (k), or ends without one (k = 0); then
\* embellished.append(sentence)
NominalStep ==
  /\ pc = "nominal"
  /\ \E d \in Draws :
       IF NominalCoin(advanced, d, intensity.num)
         THEN \E k \in NominalTargets(word_tokenize(sentence)) \cup {0} :
                IF k = 0
                  THEN /\ embellished' = Append(embellished, sentence)
                       /\ UNCHANGED <<sentence, edits>>
                  ELSE /\ sentence' = NominalApply(word_tokenize(sentence), k)
                       /\ embellished' = Append(embellished, sentence')
                       /\ edits' = edits \cup {"nominalization"}
         ELSE /\ embellished' = Append(embellished, sentence)
              /\ UNCHANGED <<sentence, edits>>
  /\ m' = m + 1
  /\ pc' = "for_emb_sentence"
  /\ UNCHANGED <<mainVars, term_mapping, callVars, loopVars, outVars, replaceVars,
                 emb_sentences, noun_gate>>

\* result = self._formalize_ending(result, intensity)
Formalize ==
  /\ pc = "formalize"
  /\ \E d1 \in Draws, d2 \in Draws, ending \in Choices(formal_endings) :
       /\ result' = FormalizeEnding(result, intensity.num, d1, d2, ending)
       /\ edits' = IF result' # result THEN edits \cup {"ending"} ELSE edits
  /\ pc' = "statistics"
  /\ UNCHANGED <<mainVars, term_mapping, callVars, loopVars, stats, replaceVars, embVars>>

\* a count that cannot fall below zero
StatsDeltaClamped(after, before) == Max(0, after - before)

\* transformed_words - original_words, transformed_chars - original_chars
StatsDelta(after, before) == after - before

\* the statistics of transform, and its return
Statistics ==
  /\ pc = "statistics"
  /\ stats' = [words |-> StatsDelta(CountWords(result), original_words),
               chars |-> StatsDelta(Len(result), original_chars)]
  /\ pc' = "returned"
  /\ UNCHANGED <<mainVars, term_mapping, callVars, loopVars, result, replaceVars,
                 embVars, edits>>

Next ==
  \/ ValidateTokenAndTier
  \/ MainLoadTerminology
  \/ MainConstruct
  \/ ProcessFiles
  \/ Construct
  \/ Call
  \/ Transform
  \/ ForSentence
  \/ ReplaceStep
  \/ ReplaceReturn
  \/ RestructureSentence
  \/ EmbellishEnter
  \/ ForEmbSentence
  \/ NounStep
  \/ ModifierStep
  \/ NominalStep
  \/ Formalize
  \/ Statistics

Spec == Init /\ [][Next]_vars

\* ================================================================ claims
\* the lengths j <= 4 for which the j tokens from cursor `start` form a key
KeyLens(mapping, toks, start) ==
  {j \in 1..Min(MaxPhraseLen, Len(toks) - start) :
     Str(PhraseAt(toks, start, j)) \in DOMAIN mapping}

Greatest(S) == CHOOSE x \in S : \A y \in S : y <= x

LookForIt == <<"look", "for", "it">>

\* C1: at every cursor position _replace_terms consumes the longest phrase
\* of at most 4 tokens that is a key of the table, and a single token when
\* no phrase is a key; with "look for" and "look" both keys and every match
\* replaced, "look for it" becomes the replacement of "look for" followed
\* by "it", never the replacement of "look"
C1_LongestPhraseFirst ==
  pc = "replace" =>
    /\ \A k \in 1..Len(spans) :
         LET lens == KeyLens(term_mapping, tokens, spans[k].start)
         IN /\ spans[k].found = (lens # {})
            /\ spans[k].len = IF lens = {} THEN 1 ELSE Greatest(lens)
    /\ ( /\ tokens = LookForIt
         /\ {Str("look for"), Str("look")} \subseteq DOMAIN term_mapping
         /\ intensity.num = Scale
         /\ i >= Len(tokens) )
       => /\ new_tokens = <<term_mapping[Str("look for")], Str("it")>>
          /\ \A k \in 1..Len(new_tokens) : new_tokens[k] # term_mapping[Str("look")]

C1_Witness ==
  /\ pc = "replace"
  /\ tokens = LookForIt
  /\ {Str("look for"), Str("look")} \subseteq DOMAIN term_mapping
  /\ intensity.num = Scale
  /\ i >= Len(tokens)
  /\ Len(spans) = 2 /\ spans[1].len = 2 /\ spans[1].replaced

\* C2: at intensity 0 no stage modifies the text: transform returns the
\* tokens of the input joined by single spaces, whatever the draws are (a
\* draw of exactly 0.0 included)
C2_ZeroIntensityIdentity ==
  (pc = "returned" /\ intensity.num = 0) =>
    result = Join(word_tokenize(text.val), " ")

\* a call transform("foo", 1) on an engine whose table maps "foo" to "bar"
FooCall ==
  /\ text = Str("foo")
  /\ intensity = [convertible |-> TRUE, num |-> Scale]
  /\ Str("foo") \in DOMAIN term_mapping
  /\ term_mapping[Str("foo")] = Str("bar")

\* C3 as stated: with custom terminology {"foo": "bar"},
\* transform("foo", 1) returns exactly "bar" for every outcome of the draws
C3_FooReturnsBar ==
  (FooCall /\ pc = "returned") => result = "bar"

\* C3 amended: with custom terminology {"foo": "bar"} and intensity 1, term
\* substitution turns "foo" into exactly "bar", but transform never returns
\* "bar": a formal starter is always prepended, so the returned text begins
\* with the first word of a formal starter and ends with the word "bar"
C3_FooBarAfterFormalStarter ==
  FooCall =>
    /\ pc = "restructure" => s = "bar"
    /\ pc = "returned" =>
         LET w == Split(result)
         IN /\ result # "bar"
            /\ Len(w) >= 2
            /\ w[Len(w)] = "bar"
            /\ w[1] \in {Split(formal_starters[k])[1] : k \in 1..Len(formal_starters)}

C3_Witness ==
  /\ FooCall
  /\ pc = "returned"
  /\ result = formal_starters[1] \o " bar"

\* C4: at intensity 1 term substitution replaces every span it matches:
\* the spans are consumed left to right without gaps, each span whose phrase
\* is a key (the longest at its cursor) is emitted as the table's replacement
\* of that phrase and none of its tokens is emitted, whatever the draws are
C4_EveryMatchReplaced ==
  (pc = "replace" /\ intensity.num = Scale) =>
    /\ Len(new_tokens) = Len(spans)
    /\ i = IF spans = <<>> THEN 0
           ELSE spans[Len(spans)].start + spans[Len(spans)].len
    /\ \A k \in 1..Len(spans) :
         LET lens == KeyLens(term_mapping, tokens, spans[k].start)
         IN /\ spans[k].start =
                 IF k = 1 THEN 0 ELSE spans[k - 1].start + spans[k - 1].len
            /\ IF lens # {}
                 THEN /\ spans[k].replaced
                      /\ new_tokens[k] =
                           term_mapping[Str(PhraseAt(tokens, spans[k].start, Greatest(lens)))]
                 ELSE new_tokens[k] = Str(tokens[spans[k].start + 1])

C4_Witness ==
  /\ pc = "replace"
  /\ intensity.num = Scale
  /\ i >= Len(tokens)
  /\ \E k \in 1..Len(spans) : spans[k].found /\ spans[k].len >= 2 /\ spans[k].replaced
  /\ \E k \in 1..Len(spans) : spans[k].found /\ spans[k].len = 1 /\ spans[k].replaced
  /\ \E k \in 1..Len(spans) : ~spans[k].found

\* a mapping of strings to strings
StringMapping(c) ==
  /\ IsDict(c)
  /\ \A it \in c.items : it[1].type = "str" /\ it[2].type = "str"

\* C5: construction ignores an invalid terminology override: when the
\* override is not a mapping of strings to strings the engine's table is the
\* default table, and when it is one the table is the defaults updated with
\* the override
C5_InvalidOverrideIgnored ==
  pc \in {"process_files", "name_error"} =>
    term_mapping = IF StringMapping(custom_terminology)
                     THEN DictUpdate(DefaultTermMapping, custom_terminology)
                     ELSE DefaultTermMapping

\* the program points before transform has looked at its arguments
BeforeTextCheck ==
  {"start", "exit", "load", "construct", "process_files", "name_error", "ready",
   "transform"}

\* C6: transform never raises on invalid text: when the text is empty or
\* not a string the call returns "Invalid input text." with stats
\* {words: 0, chars: 0}, no stage has run, whatever the intensity argument
\* is (one float() rejects included)
C6_InvalidTextSentinel ==
  ((text.type # "str" \/ text.val = "") /\ pc \notin BeforeTextCheck) =>
    /\ pc = "returned_invalid"
    /\ result = "Invalid input text."
    /\ stats = [words |-> 0, chars |-> 0]
    /\ edits = {}
    /\ sentences = <<>> /\ transformed_sentences = <<>> /\ n = 0
    /\ tokens = <<>> /\ spans = <<>> /\ emb_sentences = <<>>

C6_Witness ==
  /\ pc = "returned_invalid"
  /\ text = EmptyStr
  /\ ~intensity.convertible
  /\ result = "Invalid input text."

\* C7: _formalize_ending never appends anything to a text shorter than 100
\* characters (99 included): whatever the intensity and the draws, the text
\* it returns is the text it was given
C7_NoEndingUnder100 ==
  [][(pc = "formalize" /\ Len(result) < 100) => result' = result]_vars

C7_Witness ==
  /\ pc = "statistics"
  /\ Len(result) = 99
  /\ intensity.num > 0
  /\ Len(sent_tokenize(result)) >= 2
  /\ EndsWithPunctuation(sent_tokenize(result)[Len(sent_tokenize(result))])

\* C8: _add_technical_embellishments never nominalizes when advanced is
\* false: whatever the sentence, the intensity and the draws, the
\* nominalization step leaves the sentence as the noun and modifier
\* insertions left it, and no call made with advanced = false records a
\* nominalization
C8_NoNominalizationUnlessAdvanced ==
  /\ [](~advanced => "nominalization" \notin edits)
  /\ [][(pc = "nominal" /\ ~advanced) =>
          /\ sentence' = sentence
          /\ embellished' = Append(embellished, sentence)]_vars

C8_Witness ==
  /\ pc = "for_emb_sentence"
  /\ ~advanced
  /\ intensity.num = Scale
  /\ m > 1
  /\ NominalTargets(word_tokenize(embellished[m - 1])) # {}

\* C9: validate_token_and_tier returns a capability record only for the
\* tiers free, pro and enterprise, with advanced_transforms and
\* custom_terminology false for free and true for pro and enterprise; for
\* any other resolved tier the run exits before an engine is constructed or
\* a file transformed
C9_TierResolver ==
  /\ pc \in {"load", "construct", "process_files", "name_error"} =>
       /\ tier_level \in {"free", "pro", "enterprise"}
       /\ tier_features.advanced_transforms = (tier_level # "free")
       /\ tier_features.custom_terminology = (tier_level # "free")
  /\ tier_level \notin {"", "free", "pro", "enterprise"} =>
       /\ pc = "exit"
       /\ tier_features = NoFeatures
       /\ term_mapping = EmptyMapping
       /\ result = "" /\ edits = {}

C9_Witness ==
  /\ pc = "exit"
  /\ tier_level = "gold"
  /\ term_mapping = EmptyMapping

\* C10: on the free tier the engine is constructed with the default
\* terminology only (a supplied terminology file is not loaded), the run's
\* capability record has advanced_transforms false, and no transform call of
\* the run is made with advanced = true, so nothing is nominalized
C10_FreeTierGated ==
  (tier_level = "free" /\ pc \in {"load", "construct", "process_files", "name_error"}) =>
    /\ ~tier_features.advanced_transforms
    /\ ~tier_features.custom_terminology
    /\ pc # "load" => custom_terminology = EmptyDict
    /\ pc \in {"process_files", "name_error"} => term_mapping = DefaultTermMapping
    /\ ~advanced
    /\ "nominalization" \notin edits

C10_Witness ==
  /\ tier_level = "free"
  /\ pc = "name_error"
  /\ terminology_file.path /\ terminology_file.found /\ terminology_file.json
  /\ terminology_file.content = FooBar
  /\ term_mapping = DefaultTermMapping

\* C11: for every valid input the stats transform returns are
\* words = wordcount(result) - wordcount(text) and
\* chars = length(result) - length(text) of the returned text; they are
\* signed (a result shorter than the input gives a negative chars), and
\* stats of {0, 0} are returned for results that differ from the text
C11_StatsAreSignedDeltas ==
  pc = "returned" =>
    /\ stats.words = CountWords(result) - CountWords(text.val)
    /\ stats.chars = Len(result) - Len(text.val)

C11_Witness ==
  /\ pc = "returned"
  /\ stats = [words |-> 0, chars |-> 0]
  /\ result # text.val
  /\ "term" \in edits

\* C12: term substitution is not idempotent: with the default table and
\* intensity 1 the pass turns "write down the code." into "document in
\* structured format the codebase .", and a second pass over that output
\* changes it again, "document" being a key of the table
C12_ReplaceNotIdempotent ==
  (pc = "restructure" /\ intensity.num = Scale /\ term_mapping = DefaultTermMapping) =>
    /\ s = ReplaceTermsFull(term_mapping, sentences[n])
    /\ sentences[n] = "write down the code." =>
         /\ s = "document in structured format the codebase ."
         /\ ReplaceTermsFull(term_mapping, s) # s
         /\ ReplaceTermsFull(term_mapping, s) =
              "knowledge transfer schema in structured format the codebase ."

C12_Witness ==
  /\ pc = "restructure"
  /\ intensity.num = Scale
  /\ term_mapping = DefaultTermMapping
  /\ sentences[n] = "write down the code."
  /\ s = "document in structured format the codebase ."

RECURSIVE SpanOutput(_, _, _, _)
\* what the spans sp[k..] stand for in the output: the table's value of the
\* phrase of a replaced span, the tokens themselves of any other span
SpanOutput(mapping, toks, sp, k) ==
  IF k > Len(sp) THEN <<>>
  ELSE (IF sp[k].replaced
          THEN <<mapping[Str(PhraseAt(toks, sp[k].start, sp[k].len))]>>
          ELSE [q \in 1..sp[k].len |-> Str(toks[sp[k].start + q])])
       \o SpanOutput(mapping, toks, sp, k + 1)

\* C13: a matched span is consumed whether or not it is replaced: the
\* spans follow one another without overlap, an unreplaced span emits all
\* its tokens unchanged and the cursor moves past them (no shorter key
\* inside it is looked up), so the output differs from the tokens only at
\* replaced spans, and only input tokens are ever scanned
C13_MatchedSpanConsumed ==
  pc = "replace" =>
    /\ new_tokens = SpanOutput(term_mapping, tokens, spans, 1)
    /\ i = IF spans = <<>> THEN 0
           ELSE spans[Len(spans)].start + spans[Len(spans)].len
    /\ i <= Len(tokens)
    /\ \A k \in 1..Len(spans) :
         /\ spans[k].len >= 1
         /\ spans[k].start =
              IF k = 1 THEN 0 ELSE spans[k - 1].start + spans[k - 1].len

C13_Witness ==
  /\ pc = "replace"
  /\ i >= Len(tokens)
  /\ tokens = LookForIt
  /\ intensity.num > 0
  /\ Str("look") \in DOMAIN term_mapping
  /\ spans[1] = [start |-> 0, len |-> 2, found |-> TRUE, replaced |-> FALSE]
  /\ new_tokens = <<Str("look"), Str("for"), Str("it")>>

\* the patterns of the list that match the sentence
MatchingPatterns(sent) ==
  {k \in 1..Len(structure_patterns) : PatternMatches(structure_patterns[k], sent)}

\* C14: restructuring applies at most one rewrite, chosen by list order:
\* for a sentence some pattern matches, the result is the sentence itself
\* (gate closed) or the rewrite of the earliest matching pattern, with no
\* later pattern applied and no formal starter prepended; at intensity 1 it
\* is always that rewrite
C14_FirstPatternWins ==
  [][(pc = "restructure" /\ MatchingPatterns(s) # {}) =>
       /\ s' \in {s, PatternRewrite(structure_patterns[Least(MatchingPatterns(s))], s)}
       /\ intensity.num = Scale =>
            s' = PatternRewrite(structure_patterns[Least(MatchingPatterns(s))], s)
       /\ "starter" \in edits' => "starter" \in edits]_vars

C14_Witness ==
  /\ pc = "embellish"
  /\ intensity.num = Scale
  /\ text = Str("please update the list.")
  /\ s = "It is necessary to refactor the enumerated entities ."
  /\ edits = {"term", "pattern"}

\* C15: in the noun step, once the stage gate and the noun gate have fired,
\* a sentence without the whole word "the" and with more than 3 words always
\* gets "within the context of <noun>" inserted between its first and its
\* last word, and a sentence is left without a noun insertion only when it
\* lacks the word "the" and has 3 words or fewer
C15_NounAlwaysInserted ==
  (pc = "modifier" /\ noun_gate) =>
    /\ (~HasWordThe(emb_sentences[m]) /\ Len(Split(emb_sentences[m])) > 3) =>
         \E pos \in 1..(Len(Split(emb_sentences[m])) - 2), k \in 1..Len(technical_nouns) :
           sentence = Join(ListInsert(Split(emb_sentences[m]), pos,
                                      "within the context of " \o technical_nouns[k]), " ")
    /\ sentence = emb_sentences[m] =>
         (~HasWordThe(emb_sentences[m]) /\ Len(Split(emb_sentences[m])) <= 3)

\* the stage a sentence is in, and the stage it came from
StageOrder ==
  /\ pc' = "replace" => pc \in {"replace", "for_sentence"}
  /\ pc' = "restructure" => pc = "replace"
  /\ pc' = "embellish" => pc = "restructure"
  /\ pc' \in {"for_emb_sentence", "noun", "modifier", "nominal"} =>
       pc \in {"embellish", "for_emb_sentence", "noun", "modifier", "nominal"}
  /\ pc' = "for_sentence" => pc \in {"transform", "embellish", "for_emb_sentence"}
  /\ pc' = "formalize" => (pc = "for_sentence" /\ n > Len(sentences))
  /\ pc' = "statistics" => pc = "formalize"
  /\ pc \in {"replace", "restructure", "embellish", "for_emb_sentence", "noun",
             "modifier", "nominal", "for_sentence"} =>
       /\ n' \in {n, n + 1}
       /\ n' = n + 1 =>
            /\ pc \in {"embellish", "for_emb_sentence"}
            /\ Len(transformed_sentences') = n

\* the text of the call once the ending stage is over
EndingDone ==
  LET joined == Join(transformed_sentences, " ")
  IN IF "ending" \in edits
       THEN /\ \E k \in 1..Len(formal_endings) :
                 result \in {joined \o formal_endings[k],
                             joined \o "." \o formal_endings[k]}
            /\ Len(joined) >= 100
            /\ Len(sent_tokenize(joined)) >= 2
       ELSE result = joined

\* C16: each sentence goes through term substitution, restructuring and
\* embellishment in that order, the sentences left to right; the ending
\* stage runs once, on the join of all transformed sentences; the returned
\* text is that join, followed by at most one formal ending, which is
\* appended only when the join has at least 100 characters and 2 sentences
C16_StagesInOrderOneEnding ==
  /\ [][StageOrder]_vars
  /\ [](pc = "formalize" =>
          /\ Len(transformed_sentences) = Len(sentences)
          /\ result = Join(transformed_sentences, " ")
          /\ "ending" \notin edits)
  /\ [](pc \in {"statistics", "returned"} => EndingDone)
  /\ [](pc \notin {"statistics", "returned"} => "ending" \notin edits)

C16_Witness ==
  /\ pc = "returned"
  /\ "ending" \in edits
  /\ Len(sentences) = 2
  /\ result = Join(transformed_sentences, " ") \o formal_endings[1]

CommandWords == {"check", "find", "fix", "update", "use", "create", "make", "give"}

\* the first token of the sentence is a keyword of a command-form pattern
CommandFirst(sent) ==
  LET toks == word_tokenize(sent)
  IN /\ Len(toks) >= 1
     /\ \/ Lower(toks[1]) \in CommandWords
        \/ Len(toks) >= 2 /\ Lower(toks[1]) = "look" /\ Lower(toks[2]) = "at"

\* a sentence of a call at intensity 1 on the default table that starts
\* with a command keyword
FullIntensityCommand ==
  /\ intensity.num = Scale
  /\ term_mapping = DefaultTermMapping
  /\ n \in 1..Len(sentences)
  /\ CommandFirst(sentences[n])

\* C17 as stated: with the default table and intensity 1 a sentence whose
\* first token is a command keyword never comes out of restructuring as
\* "Systematically ..." or "Implement methodology to ..."
C17_NeverSystematically ==
  (pc = "embellish" /\ FullIntensityCommand) =>
    /\ ~StartsWith(s, "Systematically ")
    /\ ~StartsWith(s, "Implement methodology to ")

\* C17 amended: with the default table and intensity 1 no command-form
\* pattern fires on a sentence whose first token is a command keyword, the
\* keyword being replaced before the patterns are tried; the sentence never
\* becomes "Implement methodology to ...", and it becomes
\* "Systematically ..." only by the formal starter "Systematically traverse"
C17_CommandPatternsNeverFire ==
  [][(pc = "restructure" /\ FullIntensityCommand) =>
       /\ MatchingPatterns(s) \cap {1, 2} = {}
       /\ s' \notin {"Systematically " \o s, "Implement methodology to " \o s}
       /\ ~StartsWith(s', "Implement methodology to ")
       /\ StartsWith(s', "Systematically ") => s' = "Systematically traverse " \o s]_vars

C17_Witness ==
  /\ pc = "embellish"
  /\ FullIntensityCommand
  /\ sentences[n] = "find it"
  /\ s = "Systematically traverse identify it"
====
